---- MODULE Spec2Model ----
(***************************************************************************)
(* JWT verification path of auth0_client (src/src/authorization.rs):       *)
(* valid_jwt, fetch_jwks_if_needed, get_jwk and fetch_jwks, as one         *)
(* verification call running against an identity provider.                 *)
(***************************************************************************)
EXTENDS Integers, Sequences, FiniteSets, TLC

\* ---------------------------------------------------------------- bounds
\* Longest key set (JwkSet.keys) the caller supplies or the provider serves.
MaxKeys == 2

\* ------------------------------------------------------------- universes
Kids == {"k1", "k2"}
NoKid == "none"

\* RSA public components as published: "n1" and "n2" are well-formed moduli
\* of two different key pairs, "malformed" is one from_rsa_components rejects.
Moduli == {"n1", "malformed"}
Signers == {"n1", "n2"}

Algorithms == {"RS256", "HS256"}

\* A Jwk: common.key_id, and the AlgorithmParameters variant with its data.
Jwks == [kid : Kids, family : {"RSA"}, n : Moduli]
          \cup [kid : Kids, family : {"EC"}, n : {"none"}]

RECURSIVE SeqsUpTo(_, _)
SeqsUpTo(S, n) ==
    IF n = 0 THEN {<<>>}
    ELSE LET shorter == SeqsUpTo(S, n - 1)
         IN  shorter \cup {Append(s, x) : s \in shorter, x \in S}

\* A JwkSet is its keys vector.
JwkSets == SeqsUpTo(Jwks, MaxKeys)

\* The token string, by what decode_header and decode read from it.
GarbageToken ==
    [wellFormed |-> FALSE, kid |-> NoKid, alg |-> "RS256",
     signedBy |-> "n1", claims |-> "valid"]

Tokens ==
    {GarbageToken}
      \cup [wellFormed : {TRUE}, kid : {NoKid, "k1"}, alg : Algorithms,
            signedBy : Signers, claims : {"valid", "expired"}]

\* jsonwebtoken::Validation, by the fields the tests set.
Validations == [algorithms : {{"RS256"}, {"HS256"}}, validate_exp : BOOLEAN]

\* The authority argument, as the characters that matter to URL building.
Authorities == {<<"idp">>, <<"idp", "/">>}

\* Option<&JwkSet>
None == [some |-> FALSE, set |-> <<>>]
Some(set) == [some |-> TRUE, set |-> set]
OptionalJwkSets == {None} \cup {Some(s) : s \in JwkSets}

\* ------------------------------------------------------------------ URLs
WellKnownSuffix == <<"/", ".well-known", "/", "jwks.json">>

\* URL_REGEX.replace_all(url, "$1"): runs of slashes collapse to one.
RECURSIVE NormalizeUrl(_)
NormalizeUrl(u) ==
    IF Len(u) < 2 THEN u
    ELSE IF u[1] = "/" /\ u[2] = "/" THEN NormalizeUrl(Tail(u))
    ELSE <<u[1]>> \o NormalizeUrl(Tail(u))

\* format!("{authority}/.well-known/jwks.json") as fetch_jwks sees it.
WellKnownUrl(auth) == NormalizeUrl(auth \o WellKnownSuffix)

\* The raw authority as fetch_jwks sees it.
AuthorityUrl(auth) == NormalizeUrl(auth)

\* ------------------------------------------------------------- responses
\* What one GET yields inside fetch_jwks: the call does not complete, the
\* body does not deserialize to a JwkSet, or a JwkSet.
TransportFailure == [status |-> "transport", jwks |-> <<>>]
MalformedBody == [status |-> "decode", jwks |-> <<>>]
Responses ==
    {TransportFailure, MalformedBody}
      \cup {[status |-> "ok", jwks |-> s] : s \in JwkSets}

\* --------------------------------------------------------------- results
NoResult == [tag |-> "none"]
Ok(data, set) == [tag |-> "Ok", data |-> data, jwks |-> set]
Err(variant, kind) == [tag |-> "Err", variant |-> variant, kind |-> kind]

\* Error::JwtMissingKid and Error::InvalidJwk carry no payload.
JwtMissingKid == Err("JwtMissingKid", "none")
InvalidJwk == Err("InvalidJwk", "none")
\* `?` on a jsonwebtoken error: Error::InvalidJwt carrying the ErrorKind.
InvalidJwt(kind) == Err("InvalidJwt", kind)
\* `?` on a reqwest error, from send ("transport") or from json ("decode").
FromReqwest(status) == Err("Reqwest", status)

\* ------------------------------------------------------- pure functions
\* JwkSet::find: the first key whose key_id is kid; 0 when there is none.
FindIndex(set, kid) ==
    IF \E i \in 1..Len(set) : set[i].kid = kid
    THEN CHOOSE i \in 1..Len(set) :
            /\ set[i].kid = kid
            /\ \A j \in 1..(i - 1) : set[j].kid # kid
    ELSE 0

Contains(set, kid) == FindIndex(set, kid) # 0
Find(set, kid) == set[FindIndex(set, kid)]

\* decode_header(token): the header, or the InvalidToken error.
DecodeHeader(token) ==
    IF token.wellFormed
    THEN [ok |-> TRUE, kid |-> token.kid, alg |-> token.alg]
    ELSE [ok |-> FALSE, kid |-> NoKid, alg |-> token.alg]

\* DecodingKey::from_rsa_components(n, e) succeeds on well-formed components.
FromRsaComponentsOk(n) == n # "malformed"

AlgFamily(alg) == IF alg = "HS256" THEN "Hmac" ELSE "Rsa"

\* decode::<Claims>(token, key, validation) with an RSA key built from n:
\* "" when the token verifies, else the ErrorKind.
DecodeFailure(token, n, validation) ==
    IF \E a \in validation.algorithms : AlgFamily(a) # "Rsa"
        THEN "InvalidAlgorithm"
    ELSE IF ~token.wellFormed THEN "InvalidToken"
    ELSE IF token.alg \notin validation.algorithms THEN "InvalidAlgorithm"
    ELSE IF token.signedBy # n THEN "InvalidSignature"
    ELSE IF validation.validate_exp /\ token.claims = "expired"
        THEN "ExpiredSignature"
    ELSE ""

\* ----------------------------------------------------------------- state
VARIABLES
    pc,          \* where the valid_jwt future stands
    token,       \* argument: the token
    authority,   \* argument: the authority
    validation,  \* argument: the validation policy
    jwksArg,     \* argument: the caller's key set, or None
    callerJwks,  \* the caller-owned key set the argument borrows
    kid,         \* local: the header's kid
    jwks,        \* local: the key set in hand
    jwk,         \* local: the key record get_jwk returned (jwk.0)
    fetches,     \* every fetch_jwks call so far: url and response
    result       \* what valid_jwt returned

vars == <<pc, token, authority, validation, jwksArg, callerJwks, kid, jwks,
          jwk, fetches, result>>

args == <<token, authority, validation, jwksArg, callerJwks>>

\* An Auth0Client and the call in progress on it.
VARIABLES
    access_token,  \* Auth0Client.access_token: NoToken, or the stored token
    cpc,           \* "idle", or the method awaiting the token endpoint
    request,       \* the POST that method sent
    returned,      \* what the last finished method returned
    lastCall,      \* the last method called on the client
    tokenBefore,   \* access_token when that method was called
    granted,       \* access_token of the last response authenticate accepted
    nCalls         \* methods called so far

clientVars == <<access_token, cpc, request, returned, lastCall, tokenBefore,
                granted, nCalls>>

NoJwk == [kid |-> NoKid, family |-> "none", n |-> "none"]
Pending == [status |-> "pending", jwks |-> <<>>]

Init ==
    /\ pc = "idle"
    /\ token = GarbageToken
    /\ authority = <<>>
    /\ validation = [algorithms |-> {}, validate_exp |-> FALSE]
    /\ jwksArg = None
    /\ callerJwks = None
    /\ kid = NoKid
    /\ jwks = <<>>
    /\ jwk = NoJwk
    /\ fetches = <<>>
    /\ result = NoResult

\* The caller invokes valid_jwt(token, authority, validation, jwks).
Call ==
    /\ pc = "idle"
    /\ \E t \in Tokens, a \in Authorities, v \in Validations,
          j \in OptionalJwkSets :
            /\ token' = t
            /\ authority' = a
            /\ validation' = v
            /\ jwksArg' = j
            /\ callerJwks' = j
    /\ pc' = "decode_header"
    /\ UNCHANGED <<kid, jwks, jwk, fetches, result>>

Return(r) ==
    /\ result' = r
    /\ pc' = "done"

\* HeaderStep with the kid check left to key resolution: a header without a
\* kid goes on to the key set.
HeaderStepKidUnchecked ==
    /\ pc = "decode_header"
    /\ LET header == DecodeHeader(token) IN
         IF ~header.ok
         THEN Return(InvalidJwt("InvalidToken")) /\ UNCHANGED kid
         ELSE /\ kid' = header.kid
              /\ pc' = "fetch_jwks_if_needed"
              /\ UNCHANGED result
    /\ UNCHANGED <<args, jwks, jwk, fetches>>

\* let header = decode_header(token)?; let kid = header.kid.ok_or(..)?;
HeaderStep ==
    /\ pc = "decode_header"
    /\ LET header == DecodeHeader(token) IN
         IF ~header.ok
         THEN Return(InvalidJwt("InvalidToken")) /\ UNCHANGED kid
         ELSE IF header.kid = NoKid
         THEN Return(JwtMissingKid) /\ UNCHANGED kid
         ELSE /\ kid' = header.kid
              /\ pc' = "fetch_jwks_if_needed"
              /\ UNCHANGED result
    /\ UNCHANGED <<args, jwks, jwk, fetches>>

\* FetchIfNeeded fetching the well-known document even when a set is supplied.
FetchIfNeededAlways ==
    /\ pc = "fetch_jwks_if_needed"
    /\ fetches' = Append(fetches,
           [url |-> WellKnownUrl(authority), response |-> Pending])
    /\ pc' = "await_initial"
    /\ UNCHANGED <<args, kid, jwks, jwk, result>>

\* FetchIfNeeded sending the refresh GET together with the initial one.
FetchIfNeededEager ==
    /\ pc = "fetch_jwks_if_needed"
    /\ IF jwksArg.some
       THEN /\ jwks' = jwksArg.set
            /\ pc' = "get_jwk"
            /\ UNCHANGED fetches
       ELSE /\ fetches' = fetches \o
                  <<[url |-> AuthorityUrl(authority), response |-> Pending],
                    [url |-> WellKnownUrl(authority), response |-> Pending]>>
            /\ pc' = "await_initial"
            /\ UNCHANGED jwks
    /\ UNCHANGED <<args, kid, jwk, result>>

\* fetch_jwks_if_needed up to its await: clone the supplied set, or send the
\* GET for the well-known document.
FetchIfNeeded ==
    /\ pc = "fetch_jwks_if_needed"
    /\ IF jwksArg.some
       THEN /\ jwks' = jwksArg.set
            /\ pc' = "get_jwk"
            /\ UNCHANGED fetches
       ELSE /\ fetches' = Append(fetches,
                  [url |-> WellKnownUrl(authority), response |-> Pending])
            /\ pc' = "await_initial"
            /\ UNCHANGED jwks
    /\ UNCHANGED <<args, kid, jwk, result>>

\* The provider serves one document per URL for the length of a call: a URL
\* asked again answers as it did before.
Consistent(r) ==
    \A i \in 1..(Len(fetches) - 1) :
        fetches[i].url = fetches[Len(fetches)].url => r = fetches[i].response

\* fetch_jwks resumes: the response of the GET the call is waiting on.
Respond(r) ==
    /\ Consistent(r)
    /\ fetches' = [fetches EXCEPT ![Len(fetches)].response = r]

\* InitialResponse going on with an empty set when the fetch fails.
InitialResponseSwallowsError ==
    /\ pc = "await_initial"
    /\ \E r \in Responses :
         /\ Respond(r)
         /\ jwks' = r.jwks
         /\ pc' = "get_jwk"
         /\ UNCHANGED result
    /\ UNCHANGED <<args, kid, jwk>>

InitialResponse ==
    /\ pc = "await_initial"
    /\ \E r \in Responses :
         /\ Respond(r)
         /\ IF r.status = "ok"
            THEN /\ jwks' = r.jwks
                 /\ pc' = "get_jwk"
                 /\ UNCHANGED result
            ELSE /\ Return(FromReqwest(r.status))
                 /\ UNCHANGED jwks
    /\ UNCHANGED <<args, kid, jwk>>

\* GetJwk refreshing whether or not the set in hand has the kid.
GetJwkAlwaysRefresh ==
    /\ pc = "get_jwk"
    /\ fetches' = Append(fetches,
           [url |-> AuthorityUrl(authority), response |-> Pending])
    /\ pc' = "await_refresh"
    /\ UNCHANGED <<args, kid, jwks, jwk, result>>

\* GetJwk taking the first key of a non-empty set whatever its kid.
GetJwkFirstKey ==
    /\ pc = "get_jwk"
    /\ IF Len(jwks) > 0
       THEN /\ jwk' = jwks[1]
            /\ pc' = "build_key"
            /\ UNCHANGED fetches
       ELSE /\ fetches' = Append(fetches,
                  [url |-> AuthorityUrl(authority), response |-> Pending])
            /\ pc' = "await_refresh"
            /\ UNCHANGED jwk
    /\ UNCHANGED <<args, kid, jwks, result>>

\* get_jwk up to its await: find the kid, or send the GET for the refresh.
GetJwk ==
    /\ pc = "get_jwk"
    /\ IF Contains(jwks, kid)
       THEN /\ jwk' = Find(jwks, kid)
            /\ pc' = "build_key"
            /\ UNCHANGED fetches
       ELSE /\ fetches' = Append(fetches,
                  [url |-> AuthorityUrl(authority), response |-> Pending])
            /\ pc' = "await_refresh"
            /\ UNCHANGED jwk
    /\ UNCHANGED <<args, kid, jwks, result>>

\* RefreshResponse fetching again when the refreshed set misses the kid.
RefreshResponseRetry ==
    /\ pc = "await_refresh"
    /\ \E r \in Responses :
         /\ Respond(r)
         /\ IF r.status # "ok"
            THEN /\ Return(FromReqwest(r.status))
                 /\ UNCHANGED <<jwks, jwk>>
            ELSE IF Contains(r.jwks, kid)
            THEN /\ jwk' = Find(r.jwks, kid)
                 /\ jwks' = r.jwks
                 /\ pc' = "build_key"
                 /\ UNCHANGED result
            ELSE IF Len(fetches) < 3
            THEN /\ pc' = "get_jwk"
                 /\ UNCHANGED <<jwks, jwk, result>>
            ELSE /\ Return(JwtMissingKid)
                 /\ UNCHANGED <<jwks, jwk>>
    /\ UNCHANGED <<args, kid>>

\* RefreshResponse searching the stale set instead of the refreshed one.
RefreshResponseSearchesOld ==
    /\ pc = "await_refresh"
    /\ \E r \in Responses :
         /\ Respond(r)
         /\ IF r.status # "ok"
            THEN /\ Return(FromReqwest(r.status))
                 /\ UNCHANGED <<jwks, jwk>>
            ELSE IF Contains(jwks, kid)
            THEN /\ jwk' = Find(jwks, kid)
                 /\ jwks' = r.jwks
                 /\ pc' = "build_key"
                 /\ UNCHANGED result
            ELSE /\ Return(JwtMissingKid)
                 /\ UNCHANGED <<jwks, jwk>>
    /\ UNCHANGED <<args, kid>>

\* RefreshResponse returning the key from the refreshed set with the stale set.
RefreshResponseKeepsOld ==
    /\ pc = "await_refresh"
    /\ \E r \in Responses :
         /\ Respond(r)
         /\ IF r.status # "ok"
            THEN /\ Return(FromReqwest(r.status))
                 /\ UNCHANGED <<jwks, jwk>>
            ELSE IF Contains(r.jwks, kid)
            THEN /\ jwk' = Find(r.jwks, kid)
                 /\ pc' = "build_key"
                 /\ UNCHANGED <<jwks, result>>
            ELSE /\ Return(JwtMissingKid)
                 /\ UNCHANGED <<jwks, jwk>>
    /\ UNCHANGED <<args, kid>>

\* RefreshResponse reporting every failed fetch as a transport failure.
RefreshResponseCollapsesErrors ==
    /\ pc = "await_refresh"
    /\ \E r \in Responses :
         /\ Respond(r)
         /\ IF r.status # "ok"
            THEN /\ Return(FromReqwest("transport"))
                 /\ UNCHANGED <<jwks, jwk>>
            ELSE IF Contains(r.jwks, kid)
            THEN /\ jwk' = Find(r.jwks, kid)
                 /\ jwks' = r.jwks
                 /\ pc' = "build_key"
                 /\ UNCHANGED result
            ELSE /\ Return(JwtMissingKid)
                 /\ UNCHANGED <<jwks, jwk>>
    /\ UNCHANGED <<args, kid>>

\* RefreshResponse appending the refreshed keys to the set in hand.
RefreshResponseMerges ==
    /\ pc = "await_refresh"
    /\ \E r \in Responses :
         /\ Respond(r)
         /\ IF r.status # "ok"
            THEN /\ Return(FromReqwest(r.status))
                 /\ UNCHANGED <<jwks, jwk>>
            ELSE IF Contains(r.jwks, kid)
            THEN /\ jwk' = Find(r.jwks, kid)
                 /\ jwks' = jwks \o r.jwks
                 /\ pc' = "build_key"
                 /\ UNCHANGED result
            ELSE /\ Return(JwtMissingKid)
                 /\ UNCHANGED <<jwks, jwk>>
    /\ UNCHANGED <<args, kid>>

\* get_jwk resumes with the refreshed set and searches it once.
RefreshResponse ==
    /\ pc = "await_refresh"
    /\ \E r \in Responses :
         /\ Respond(r)
         /\ IF r.status # "ok"
            THEN /\ Return(FromReqwest(r.status))
                 /\ UNCHANGED <<jwks, jwk>>
            ELSE IF Contains(r.jwks, kid)
            THEN /\ jwk' = Find(r.jwks, kid)
                 /\ jwks' = r.jwks
                 /\ pc' = "build_key"
                 /\ UNCHANGED result
            ELSE /\ Return(JwtMissingKid)
                 /\ UNCHANGED <<jwks, jwk>>
    /\ UNCHANGED <<args, kid>>

\* BuildAndDecode moving on to another record of the kid when the matched
\* one is not RSA.
BuildAndDecodeFallback ==
    /\ pc = "build_key"
    /\ IF jwk.family # "RSA"
       THEN IF \E i \in 1..Len(jwks) :
                    jwks[i].kid = kid /\ jwks[i].family = "RSA"
            THEN /\ jwk' = CHOOSE r \in {jwks[i] : i \in 1..Len(jwks)} :
                              r.kid = kid /\ r.family = "RSA"
                 /\ UNCHANGED <<pc, result>>
            ELSE Return(InvalidJwk) /\ UNCHANGED jwk
       ELSE /\ UNCHANGED jwk
            /\ IF ~FromRsaComponentsOk(jwk.n) THEN Return(InvalidJwk)
               ELSE LET failure == DecodeFailure(token, jwk.n, validation) IN
                      IF failure # "" THEN Return(InvalidJwt(failure))
                      ELSE Return(Ok(token.claims, jwks))
    /\ UNCHANGED <<args, kid, jwks, fetches>>

\* BuildAndDecode with the map_err of the key construction applied to the
\* decode as well: the validation failure is reported as InvalidJwk.
BuildAndDecodeMasksReason ==
    /\ pc = "build_key"
    /\ IF jwk.family # "RSA" THEN Return(InvalidJwk)
       ELSE IF ~FromRsaComponentsOk(jwk.n) THEN Return(InvalidJwk)
       ELSE LET failure == DecodeFailure(token, jwk.n, validation) IN
              IF failure # "" THEN Return(InvalidJwk)
              ELSE Return(Ok(token.claims, jwks))
    /\ UNCHANGED <<args, kid, jwks, jwk, fetches>>

\* match jwk.0.algorithm { RSA => from_rsa_components, decode; _ => Err }
BuildAndDecode ==
    /\ pc = "build_key"
    /\ IF jwk.family # "RSA" THEN Return(InvalidJwk)
       ELSE IF ~FromRsaComponentsOk(jwk.n) THEN Return(InvalidJwk)
       ELSE LET failure == DecodeFailure(token, jwk.n, validation) IN
              IF failure # "" THEN Return(InvalidJwt(failure))
              ELSE Return(Ok(token.claims, jwks))
    /\ UNCHANGED <<args, kid, jwks, jwk, fetches>>

\* ---------------------------------------------------------- Auth0Client
\* Longest run of method calls on one client.
MaxCalls == 4

NoToken == "none"
AccessTokens == {"t1", "t2"}

\* self.domain, and the body fields every grant request carries.
Domain == <<"idp", "/">>
TokenPath == <<"/", "oauth", "/", "token">>
GrantFields == {"grant_type", "client_id", "client_secret", "audience"}
UserFields == {"username", "password"}

\* URL_REGEX.replace_all(&format!("{}/oauth/token", self.domain), "$1")
TokenUrl == NormalizeUrl(Domain \o TokenPath)

NoRequest == [url |-> <<>>, body |-> {}]

\* What the POST yields inside authenticate_with_body: send fails, the body
\* cannot be read, the body is no AccessTokenResponse, or it is one.
TokenResponses ==
    {[status |-> st, access_token |-> NoToken] :
        st \in {"transport", "decode", "json"}}
      \cup {[status |-> "ok", access_token |-> t] : t \in AccessTokens}

\* `?` on a serde_json error.
FromSerdeJson == Err("Serde", "json")

\* The error authenticate_with_body returns for a response that is not ok.
TokenError(r) ==
    IF r.status = "json" THEN FromSerdeJson ELSE FromReqwest(r.status)

NotReturned == [tag |-> "none"]
OkToken(t) == [tag |-> "Ok", value |-> t]
OkUnit == [tag |-> "Ok", value |-> "()"]

\* Auth0Client::new: no token yet.
ClientInit ==
    /\ access_token = NoToken
    /\ cpc = "idle"
    /\ request = NoRequest
    /\ returned = NotReturned
    /\ lastCall = "none"
    /\ tokenBefore = NoToken
    /\ granted = NoToken
    /\ nCalls = 0

\* Fn access_token(&self): a clone of the field.
AccessToken == access_token

\* A method starts: it builds its body and authenticate_with_body sends it.
Send(method, body) ==
    /\ cpc = "idle"
    /\ nCalls < MaxCalls
    /\ cpc' = method
    /\ request' = [url |-> TokenUrl, body |-> body]
    /\ returned' = NotReturned
    /\ lastCall' = method
    /\ tokenBefore' = access_token
    /\ nCalls' = nCalls + 1
    /\ UNCHANGED <<access_token, granted>>

\* authenticate up to the await of authenticate_with_body.
Authenticate == Send("authenticate", GrantFields)

\* authenticate_user up to the await of authenticate_with_body.
AuthenticateUser == Send("authenticate_user", GrantFields \cup UserFields)

\* AuthenticateResponse returning the token without storing it.
AuthenticateResponseNotStored ==
    /\ cpc = "authenticate"
    /\ \E r \in TokenResponses :
         IF r.status = "ok"
         THEN /\ granted' = r.access_token
              /\ returned' = OkToken(r.access_token)
              /\ UNCHANGED access_token
         ELSE /\ returned' = TokenError(r)
              /\ UNCHANGED <<access_token, granted>>
    /\ cpc' = "idle"
    /\ UNCHANGED <<request, lastCall, tokenBefore, nCalls>>

\* authenticate resumes: the response is stored and returned, or the error
\* returned.
AuthenticateResponse ==
    /\ cpc = "authenticate"
    /\ \E r \in TokenResponses :
         IF r.status = "ok"
         THEN /\ access_token' = r.access_token
              /\ granted' = r.access_token
              /\ returned' = OkToken(r.access_token)
         ELSE /\ returned' = TokenError(r)
              /\ UNCHANGED <<access_token, granted>>
    /\ cpc' = "idle"
    /\ UNCHANGED <<request, lastCall, tokenBefore, nCalls>>

\* AuthenticateUserResponse storing the token as authenticate does.
AuthenticateUserResponseStores ==
    /\ cpc = "authenticate_user"
    /\ \E r \in TokenResponses :
         IF r.status = "ok"
         THEN /\ access_token' = r.access_token
              /\ returned' = OkUnit
         ELSE /\ returned' = TokenError(r)
              /\ UNCHANGED access_token
    /\ cpc' = "idle"
    /\ UNCHANGED <<request, lastCall, tokenBefore, granted, nCalls>>

\* authenticate_user resumes: the response is dropped, or the error returned.
AuthenticateUserResponse ==
    /\ cpc = "authenticate_user"
    /\ \E r \in TokenResponses :
         IF r.status = "ok"
         THEN returned' = OkUnit
         ELSE returned' = TokenError(r)
    /\ cpc' = "idle"
    /\ UNCHANGED <<access_token, request, lastCall, tokenBefore, granted,
                   nCalls>>

\* ----------------------------------------------------- concurrent calls
\* Two valid_jwt futures polled in any order, each with arguments of its own.
\* A call is the record of its arguments, locals, fetches and result.
VARIABLE calls

Procs == {1, 2}

\* Longest key set in the runs of two calls.
MaxPairKeys == 1

PairJwks == [kid : Kids, family : {"RSA"}, n : {"n1"}]
PairJwkSets == SeqsUpTo(PairJwks, MaxPairKeys)
PairTokens ==
    [wellFormed : {TRUE}, kid : {"k1"}, alg : {"RS256"},
     signedBy : Signers, claims : {"valid"}]
PairValidation == [algorithms |-> {"RS256"}, validate_exp |-> FALSE]
PairAuthority == <<"idp">>
PairResponses ==
    {TransportFailure, MalformedBody}
      \cup {[status |-> "ok", jwks |-> s] : s \in PairJwkSets}

IdleCall ==
    [pc |-> "idle", token |-> GarbageToken, authority |-> <<>>,
     validation |-> [algorithms |-> {}, validate_exp |-> FALSE],
     jwksArg |-> None, kid |-> NoKid, jwks |-> <<>>, jwk |-> NoJwk,
     fetches |-> <<>>, result |-> NoResult]

\* valid_jwt(token, authority, validation, jwks) just called.
Started(t, a, v, j) ==
    [IdleCall EXCEPT !.pc = "decode_header", !.token = t, !.authority = a,
                     !.validation = v, !.jwksArg = j]

Returned(c, r) == [c EXCEPT !.pc = "done", !.result = r]

Sent(c, url, next) ==
    [c EXCEPT !.fetches = Append(@, [url |-> url, response |-> Pending]),
              !.pc = next]

\* The step a call takes on its own, from one await to the next: lines
\* 201-202, fetch_jwks_if_needed, get_jwk before the refresh, lines 207-216.
StepLocal(c) ==
    CASE c.pc = "decode_header" ->
           LET header == DecodeHeader(c.token) IN
             IF ~header.ok THEN Returned(c, InvalidJwt("InvalidToken"))
             ELSE IF header.kid = NoKid THEN Returned(c, JwtMissingKid)
             ELSE [c EXCEPT !.kid = header.kid,
                            !.pc = "fetch_jwks_if_needed"]
      [] c.pc = "fetch_jwks_if_needed" ->
           IF c.jwksArg.some
           THEN [c EXCEPT !.jwks = c.jwksArg.set, !.pc = "get_jwk"]
           ELSE Sent(c, WellKnownUrl(c.authority), "await_initial")
      [] c.pc = "get_jwk" ->
           IF Contains(c.jwks, c.kid)
           THEN [c EXCEPT !.jwk = Find(c.jwks, c.kid), !.pc = "build_key"]
           ELSE Sent(c, AuthorityUrl(c.authority), "await_refresh")
      [] c.pc = "build_key" ->
           IF c.jwk.family # "RSA" THEN Returned(c, InvalidJwk)
           ELSE IF ~FromRsaComponentsOk(c.jwk.n) THEN Returned(c, InvalidJwk)
           ELSE LET failure == DecodeFailure(c.token, c.jwk.n, c.validation)
                IN  IF failure # "" THEN Returned(c, InvalidJwt(failure))
                    ELSE Returned(c, Ok(c.token.claims, c.jwks))

\* The step a call takes when the GET it awaits is answered with r.
StepResponse(c, r) ==
    LET d == [c EXCEPT !.fetches[Len(c.fetches)].response = r] IN
    CASE c.pc = "await_initial" ->
           IF r.status = "ok"
           THEN [d EXCEPT !.jwks = r.jwks, !.pc = "get_jwk"]
           ELSE Returned(d, FromReqwest(r.status))
      [] c.pc = "await_refresh" ->
           IF r.status # "ok" THEN Returned(d, FromReqwest(r.status))
           ELSE IF Contains(r.jwks, c.kid)
           THEN [d EXCEPT !.jwk = Find(r.jwks, c.kid), !.jwks = r.jwks,
                          !.pc = "build_key"]
           ELSE Returned(d, JwtMissingKid)

Awaiting(c) == c.pc \in {"await_initial", "await_refresh"}
Running(c) == c.pc \notin {"idle", "done"} /\ ~Awaiting(c)

PairInit == calls = [i \in Procs |-> IdleCall]

\* A caller invokes valid_jwt with a key set it owns.
PairCall(i) ==
    /\ calls[i].pc = "idle"
    /\ \E t \in PairTokens,
          j \in {None} \cup {Some(set) : set \in PairJwkSets} :
         calls' = [calls EXCEPT
                     ![i] = Started(t, PairAuthority, PairValidation, j)]

\* Call i is polled and runs to its next await or to its return.
PairLocal(i) ==
    /\ Running(calls[i])
    /\ calls' = [calls EXCEPT ![i] = StepLocal(calls[i])]

\* PairResponse with the fetched set kept in one place for all calls: the
\* other call's set in hand is replaced too.
PairResponseShared(i) ==
    /\ Awaiting(calls[i])
    /\ \E r \in PairResponses :
         calls' = [k \in Procs |->
                     IF k = i THEN StepResponse(calls[i], r)
                     ELSE IF r.status = "ok" /\ calls[k].pc # "idle"
                     THEN [calls[k] EXCEPT !.jwks = r.jwks]
                     ELSE calls[k]]

\* The GET call i awaits is answered and the call resumes.
PairResponse(i) ==
    /\ Awaiting(calls[i])
    /\ \E r \in PairResponses :
         calls' = [calls EXCEPT ![i] = StepResponse(calls[i], r)]

\* ------------------------------------------------------- specifications
\* One valid_jwt call; no client is involved.
Next ==
    \/ Call /\ UNCHANGED <<clientVars, calls>>
    \/ HeaderStep /\ UNCHANGED <<clientVars, calls>>
    \/ FetchIfNeeded /\ UNCHANGED <<clientVars, calls>>
    \/ InitialResponse /\ UNCHANGED <<clientVars, calls>>
    \/ GetJwk /\ UNCHANGED <<clientVars, calls>>
    \/ RefreshResponse /\ UNCHANGED <<clientVars, calls>>
    \/ BuildAndDecode /\ UNCHANGED <<clientVars, calls>>

allVars == <<vars, clientVars, calls>>

\* No valid_jwt call started, a freshly built client.
InitAll == Init /\ ClientInit /\ PairInit

Spec == InitAll /\ [][Next]_allVars

\* One Auth0Client and the methods called on it; no valid_jwt call runs.
NextClient ==
    \/ Authenticate /\ UNCHANGED <<vars, calls>>
    \/ AuthenticateResponse /\ UNCHANGED <<vars, calls>>
    \/ AuthenticateUser /\ UNCHANGED <<vars, calls>>
    \/ AuthenticateUserResponse /\ UNCHANGED <<vars, calls>>

SpecClient == InitAll /\ [][NextClient]_allVars

\* Two valid_jwt calls in flight at once, under every interleaving.
NextPair ==
    \/ \E i \in Procs : PairCall(i) /\ UNCHANGED <<vars, clientVars>>
    \/ \E i \in Procs : PairLocal(i) /\ UNCHANGED <<vars, clientVars>>
    \/ \E i \in Procs : PairResponse(i) /\ UNCHANGED <<vars, clientVars>>

SpecPair == InitAll /\ [][NextPair]_allVars

\* ---------------------------------------------------------------- claims
Succeeded == pc = "done" /\ result.tag = "Ok"
Failed == pc = "done" /\ result.tag = "Err"
HasKid == token.wellFormed /\ token.kid # NoKid

\* C1: valid_jwt returns Claims only when the token's signature verified
\* against the key record get_jwk matched on the header's kid, an RSA record,
\* under an algorithm the validation's allow-list names.
C1_ClaimsOnlyAfterVerification ==
    Succeeded =>
        /\ HasKid
        /\ jwk.kid = token.kid
        /\ jwk.family = "RSA"
        /\ FromRsaComponentsOk(jwk.n)
        /\ token.signedBy = jwk.n
        /\ token.alg \in validation.algorithms

C1_Witness ==
    /\ Succeeded
    /\ Len(fetches) = 2
    /\ Len(jwks) = 2

\* C2: a token whose header has no kid is rejected with JwtMissingKid and no
\* JWKS fetch is ever sent for it, with or without a supplied key set.
C2_NoKidNoFetch ==
    (pc # "idle" /\ token.wellFormed /\ token.kid = NoKid) =>
        /\ fetches = <<>>
        /\ pc \in {"decode_header", "done"}
        /\ pc = "done" => result = JwtMissingKid

C2_Witness ==
    /\ pc = "done"
    /\ token.wellFormed
    /\ token.kid = NoKid
    /\ ~jwksArg.some
    /\ result = JwtMissingKid

\* The refresh-on-miss case of a supplied set: the set misses the header's
\* kid and the one fetch sent so far has been answered with a key set.
Refreshed ==
    /\ jwksArg.some
    /\ kid # NoKid
    /\ ~Contains(jwksArg.set, kid)
    /\ Len(fetches) >= 1
    /\ fetches[1].response.status = "ok"

\* C3: when neither the supplied set nor the refreshed set has the kid, the
\* call fails with JwtMissingKid and the refresh is the only fetch it sent.
C3_MissAfterRefresh ==
    (Refreshed /\ ~Contains(fetches[1].response.jwks, kid)) =>
        /\ pc = "done"
        /\ result = JwtMissingKid
        /\ Len(fetches) = 1

C3_Witness ==
    /\ Refreshed
    /\ ~Contains(fetches[1].response.jwks, kid)
    /\ Len(jwksArg.set) = 2
    /\ Len(fetches[1].response.jwks) = 2
    /\ result = JwtMissingKid

\* Key resolution (get_jwk) has returned a record.
Resolved == pc \in {"build_key", "done"} /\ jwk # NoJwk

\* C4: a supplied set that has the kid is resolved without any fetch, to its
\* record of that kid and to the supplied set itself.
C4_CachedHitNoFetch ==
    (jwksArg.some /\ kid # NoKid /\ Contains(jwksArg.set, kid)) =>
        /\ fetches = <<>>
        /\ pc \in {"fetch_jwks_if_needed", "get_jwk", "build_key", "done"}
        /\ pc \in {"build_key", "done"} =>
              /\ jwk = Find(jwksArg.set, kid)
              /\ jwks = jwksArg.set
        /\ Succeeded => result.jwks = jwksArg.set

C4_Witness ==
    /\ jwksArg.some
    /\ Resolved
    /\ Len(jwksArg.set) = 2
    /\ jwk = jwksArg.set[2]
    /\ fetches = <<>>

\* C5: when the supplied set misses the kid and the refreshed set has it,
\* resolution succeeds with the refreshed set's record after that one fetch.
C5_HitAfterRefresh ==
    (Refreshed /\ Contains(fetches[1].response.jwks, kid)) =>
        /\ Resolved
        /\ Len(fetches) = 1
        /\ jwk = Find(fetches[1].response.jwks, kid)
        /\ jwks = fetches[1].response.jwks

C5_Witness ==
    /\ Refreshed
    /\ Contains(fetches[1].response.jwks, kid)
    /\ Resolved
    /\ Len(jwksArg.set) = 2
    /\ fetches[1].url = AuthorityUrl(authority)

\* C6: a call sends at most two fetches, and sends the second only once the
\* first has been answered with a key set and that set searched in vain.
C6_AtMostTwoSequentialFetches ==
    /\ Len(fetches) <= 2
    /\ \A i \in 1..(Len(fetches) - 1) :
          /\ fetches[i].response.status = "ok"
          /\ kid # NoKid
          /\ ~Contains(fetches[i].response.jwks, kid)

C6_Witness ==
    /\ Len(fetches) = 2
    /\ fetches[2].response = Pending
    /\ Len(fetches[1].response.jwks) = 2

\* C7: on success the returned set is the one the key came from: the set of
\* the last fetch when the call fetched, the supplied set otherwise.
C7_ReturnsSetUsed ==
    Succeeded =>
        /\ Contains(result.jwks, token.kid)
        /\ Find(result.jwks, token.kid) = jwk
        /\ IF fetches # <<>>
           THEN /\ fetches[Len(fetches)].response.status = "ok"
                /\ result.jwks = fetches[Len(fetches)].response.jwks
           ELSE /\ jwksArg.some
                /\ result.jwks = jwksArg.set

C7_Witness ==
    /\ Succeeded
    /\ jwksArg.some
    /\ Len(jwksArg.set) = 2
    /\ Len(fetches) = 1
    /\ result.jwks # jwksArg.set

\* A token the validation accepts once its signature verifies: an RSA
\* algorithm of the allow-list, and claims that pass the enabled checks.
ValidToken ==
    /\ HasKid
    /\ AlgFamily(token.alg) = "Rsa"
    /\ token.alg \in validation.algorithms
    /\ \A a \in validation.algorithms : AlgFamily(a) = "Rsa"
    /\ ~(validation.validate_exp /\ token.claims = "expired")

\* The RSA record of the key pair that signed the token, under its kid.
SignerKey == [kid |-> token.kid, family |-> "RSA", n |-> token.signedBy]

\* The set publishes the signer's key under the token's kid, and nothing
\* else under that kid.
HoldsSignerKey(set) ==
    /\ Contains(set, token.kid)
    /\ \A i \in 1..Len(set) : set[i].kid = token.kid => set[i] = SignerKey

\* The key sets the call has had in hand, in order: the supplied one, then
\* what each fetch returned.
Candidates ==
    (IF jwksArg.some THEN <<jwksArg.set>> ELSE <<>>)
      \o [i \in 1..Len(fetches) |-> fetches[i].response.jwks]

\* The first of those sets to have the token's kid holds the signer's key.
ReachableSignerKey ==
    \E i \in 1..Len(Candidates) :
        /\ HoldsSignerKey(Candidates[i])
        /\ \A j \in 1..(i - 1) : ~Contains(Candidates[j], token.kid)

\* C8: a valid token whose RSA signing key is in the key set the call
\* reaches (supplied, fetched when none is supplied, or refreshed) is
\* accepted and its decoded claims returned.
C8_ValidTokenAccepted ==
    (pc = "done" /\ ValidToken /\ ReachableSignerKey) =>
        /\ result.tag = "Ok"
        /\ result.data = token.claims

C8_Witness ==
    /\ Succeeded
    /\ ~jwksArg.some
    /\ Len(fetches) = 2
    /\ Len(result.jwks) = 2
    /\ token.claims = "expired"

\* C9: with no set supplied, a reachable provider and a well-known document
\* that lacks the kid, the call fails with JwtMissingKid and with nothing else.
C9_MissingKidWhenWellKnownLacksKid ==
    ( /\ pc = "done"
      /\ ~jwksArg.some
      /\ kid # NoKid
      /\ Len(fetches) >= 1
      /\ fetches[1].url = WellKnownUrl(authority)
      /\ fetches[1].response.status = "ok"
      /\ ~Contains(fetches[1].response.jwks, kid)
      /\ \A i \in 1..Len(fetches) : fetches[i].response # TransportFailure ) =>
        result = JwtMissingKid

\* C10: once the matched record is not an RSA one the call can only end, with
\* InvalidJwk: it takes no other record and sends no further fetch.
C10_NonRsaIsTerminal ==
    [][(jwk # NoJwk /\ jwk.family # "RSA") =>
          /\ pc' = "done"
          /\ result' = InvalidJwk
          /\ jwk' = jwk
          /\ fetches' = fetches]_vars

C10_Witness ==
    /\ pc = "done"
    /\ jwk.family = "EC"
    /\ result = InvalidJwk
    /\ Len(jwks) = 2
    /\ jwks[2] = SignerKey
    /\ ValidToken

\* Key resolution gave an RSA record from which the key was built.
KeyBuilt == Resolved /\ jwk.family = "RSA" /\ FromRsaComponentsOk(jwk.n)

\* The token's algorithm is an RSA one the validation allows, so that decode
\* gets as far as the signature.
AlgorithmAccepted ==
    /\ token.alg \in validation.algorithms
    /\ \A a \in validation.algorithms : AlgFamily(a) = "Rsa"

\* C11: once the key is resolved and built, a token that fails signature or
\* claims validation is rejected with InvalidJwt carrying the reason of the
\* failure (InvalidSignature, ExpiredSignature), and nothing is returned
\* with it.
C11_ValidationFailureCarriesReason ==
    (pc = "done" /\ KeyBuilt /\ AlgorithmAccepted) =>
        /\ token.signedBy # jwk.n => result = InvalidJwt("InvalidSignature")
        /\ (token.signedBy = jwk.n /\ token.claims = "expired"
              /\ validation.validate_exp)
             => result = InvalidJwt("ExpiredSignature")
        /\ result.tag = "Err" => DOMAIN result = {"tag", "variant", "kind"}

C11_Witness ==
    /\ pc = "done"
    /\ KeyBuilt
    /\ AlgorithmAccepted
    /\ token.claims = "expired"
    /\ result = InvalidJwt("ExpiredSignature")
    /\ Len(fetches) = 2

\* C12: a token whose header cannot be parsed is rejected with an error of
\* another kind than the one validation failures are reported with.
C12_MalformedTokenDistinctKind ==
    (pc = "done" /\ ~token.wellFormed) =>
        /\ result.tag = "Err"
        /\ result.variant # InvalidJwt("InvalidSignature").variant

C14_FetchFailureIsTerminal ==
    \A i \in 1..Len(fetches) :
        fetches[i].response.status \in {"transport", "decode"} =>
            /\ i = Len(fetches)
            /\ pc = "done"
            /\ result.tag = "Err"
            /\ result # JwtMissingKid
            /\ result.kind = fetches[i].response.status

C14_Witness ==
    /\ pc = "done"
    /\ ~jwksArg.some
    /\ Len(fetches) = 1
    /\ fetches[1].response = TransportFailure
    /\ result.tag = "Err"

\* C15: the caller's key set is what it was when the call was made, and a
\* set the call goes on with after a fetch is that fetch's document alone.
C15_CallerSetUntouchedNoMerge ==
    /\ pc # "idle" => callerJwks = jwksArg
    /\ ( /\ fetches # <<>>
         /\ fetches[Len(fetches)].response.status = "ok"
         /\ pc \in {"get_jwk", "build_key"} \/ Succeeded ) =>
           jwks = fetches[Len(fetches)].response.jwks
    /\ (Succeeded /\ fetches # <<>>) =>
           result.jwks = fetches[Len(fetches)].response.jwks

C15_Witness ==
    /\ Succeeded
    /\ callerJwks.some
    /\ Len(callerJwks.set) = 2
    /\ Len(fetches) = 1
    /\ \A i \in 1..Len(result.jwks) : result.jwks[i] # callerJwks.set[1]

\* C17: every fetch of a call asks for the well-known document of the
\* authority.
C17_AllFetchesCanonical ==
    \A i \in 1..Len(fetches) : fetches[i].url = WellKnownUrl(authority)

\* Where the call stands, in the order the code goes through.
Rank(p) ==
    CASE p = "idle" -> 0
      [] p = "decode_header" -> 1
      [] p = "fetch_jwks_if_needed" -> 2
      [] p = "await_initial" -> 3
      [] p = "get_jwk" -> 4
      [] p = "await_refresh" -> 5
      [] p = "build_key" -> 6
      [] p = "done" -> 7

\* The stage of the state machine view: Unverified, HeaderParsed (key
\* resolution under way), KeyResolved, and the terminal stage; the key
\* material is built and used within the last step.
Stage(p) ==
    CASE Rank(p) <= 1 -> "Unverified"
      [] Rank(p) \in 2..5 -> "HeaderParsed"
      [] Rank(p) = 6 -> "KeyResolved"
      [] Rank(p) = 7 -> IF result.tag = "Ok" THEN "Verified" ELSE "Rejected"

\* C18: a call only moves forward through its stages, never back to or
\* again into one; it ends Verified or Rejected, Verified only from
\* KeyResolved, and a finished call takes no further step.
C18_StagesInOrder ==
    [][ /\ Rank(pc') > Rank(pc)
        /\ pc # "done"
        /\ pc' = "done" => result'.tag \in {"Ok", "Err"}
        /\ pc' # "done" => result' = NoResult
        /\ result'.tag = "Ok" => pc = "build_key"
        /\ pc' = "build_key" => pc \in {"get_jwk", "await_refresh"}
        /\ pc' \in {"await_initial", "get_jwk"} =>
              pc \in {"fetch_jwks_if_needed", "await_initial"} ]_vars

C18_Witness ==
    /\ Succeeded
    /\ Stage(pc) = "Verified"
    /\ Len(fetches) = 2

\* authenticate has succeeded on the client at least once.
Authenticated == granted # NoToken

\* C16: access_token() is None until an authenticate call has succeeded, and
\* from then on the token of the last response authenticate accepted, which
\* is what that authenticate call returned.
C16_AccessTokenIsLastGranted ==
    /\ ~Authenticated => AccessToken = NoToken
    /\ Authenticated => AccessToken = granted
    /\ (cpc = "idle" /\ lastCall = "authenticate" /\ returned.tag = "Ok") =>
          /\ Authenticated
          /\ returned = OkToken(AccessToken)

C16_Witness ==
    /\ cpc = "idle"
    /\ lastCall = "authenticate"
    /\ returned.tag = "Ok"
    /\ tokenBefore \in AccessTokens
    /\ AccessToken # tokenBefore

\* C20: after an authenticate_user call, whatever it returned, access_token()
\* is what it was before the call.
C20_AuthenticateUserKeepsToken ==
    lastCall = "authenticate_user" => AccessToken = tokenBefore

C20_Witness ==
    /\ cpc = "idle"
    /\ lastCall = "authenticate_user"
    /\ returned = OkUnit
    /\ nCalls = 1
    /\ AccessToken = NoToken

\* The responses a call has received, in order.
Received(c) ==
    LET n == IF Awaiting(c) THEN Len(c.fetches) - 1 ELSE Len(c.fetches)
    IN  [k \in 1..n |-> c.fetches[k].response]

\* A call run on its own from state c, answered with rs in order, for as
\* long as it has steps to take and answers to take them with.
RECURSIVE Run(_, _)
Run(c, rs) ==
    IF c.pc \in {"idle", "done"} THEN c
    ELSE IF Awaiting(c)
         THEN IF rs = <<>> THEN c ELSE Run(StepResponse(c, Head(rs)), Tail(rs))
         ELSE Run(StepLocal(c), rs)

\* What a call comes to alone, given its arguments and its own responses.
Alone(c) ==
    Run(Started(c.token, c.authority, c.validation, c.jwksArg), Received(c))

\* C19: whatever the other call does and in whatever order the two are
\* polled, each call stands where its own arguments and the responses to
\* its own fetches put it: its outcome and returned key set are those of the
\* same call run alone.
C19_CallsDoNotInterfere ==
    \A i \in Procs :
        calls[i].pc # "idle" => Run(calls[i], <<>>) = Alone(calls[i])

C19_Witness ==
    /\ calls[1].pc = "done"
    /\ calls[2].pc = "done"
    /\ calls[1].jwksArg.some
    /\ calls[2].jwksArg.some
    /\ calls[1].jwksArg # calls[2].jwksArg
    /\ Len(calls[1].fetches) = 1
    /\ Len(calls[2].fetches) = 0
    /\ calls[1].result.tag = "Ok"
    /\ calls[1].result.jwks # calls[1].jwksArg.set
    /\ calls[2].result = InvalidJwt("InvalidSignature")
    /\ calls[2].jwks = calls[2].jwksArg.set

====
